---- MODULE Spec2Model ----
(***************************************************************************)
(* Model of src/lambda.py: the submission event handler lambda_handler,    *)
(* its helpers send_email and update_dynamodb, and the external services   *)
(* they call (HTTP fetch, object store, SMTP relay, record store).         *)
(* One invocation runs strictly sequentially; pc is its position in the    *)
(* handler.  Every network call is a step whose outcome the environment    *)
(* chooses.  The bucket and the table persist across invocations.          *)
(***************************************************************************)
EXTENDS Integers, Sequences, FiniteSets, TLC

\* ---------------------------------------------------------------- bounds
MaxInvocations == 2
MaxClock == 3

\* clock ticks per second: datetime.now() is finer than the "%Y%m%d%H%M%S" format
TicksPerSecond == 2

\* ------------------------------------------------------ program constants
\* number of parameters of send_email
SendEmailParams == 11
\* number of positional arguments of the send_email call in the except handler
ExceptCallArgs == 8
\* the HTTP status code the handler accepts
HttpOk == 200

\* ------------------------------------------------------------ input sets
FailureStatuses == {"NO_CONTENT", "INVALID_URL", "MAX_ATTEMPTS", "DEADLINE_PASSED"}
KnownStatuses == {"SUCCESS"} \cup FailureStatuses
Statuses == KnownStatuses \cup {"UNKNOWN"}
Users == {"u1@x", "u2@x"}
Assignments == {"a1"}
Attempts == {1, 2}
Urls == {"http://h/s.zip"}

\* The SNS event.  sns says what event['Records'][0]['Sns']['Message'] holds:
\*   "json"      a string that parses as JSON with all the fields
\*   "malformed" a string that is not JSON
\*   "absent"    no record / no message in the event
WellFormedEvents ==
    [sns : {"json"}, status : Statuses, submissionUrl : Urls, userEmail : Users,
     assignmentId : Assignments, attempt : Attempts]
BrokenEvents ==
    [sns : {"malformed", "absent"}, status : {"SUCCESS"}, submissionUrl : Urls,
     userEmail : {"u1@x"}, assignmentId : Assignments, attempt : {1}]
Events == WellFormedEvents \cup BrokenEvents

\* requests.get returns a response or raises
StatusCodes == {200, 404}
Responses == [status_code : StatusCodes, content : {"", "zipbytes"}]
NoResponse == [status_code |-> 0, content |-> ""]
\* the outcome of a requests.get that raised instead of returning
Raised == [status_code |-> -1, content |-> ""]

\* what each stage of the SMTP conversation does when it is reached:
\* smtplib raises SMTPException subclasses or plain OSError (socket errors)
Transports ==
    [connect : {"ok", "OSError"}, login : {"ok", "SMTPException", "OSError"},
     sendmail : {"ok", "SMTPException", "OSError"}, quit : {"ok", "SMTPException"}]
SmtpOk == [connect |-> "ok", login |-> "ok", sendmail |-> "ok", quit |-> "ok"]

NoPath == <<>>
NoTs == "unbound"

VARIABLES
    pc,         \* position of the current invocation in lambda_handler
    inv,        \* number of invocations started
    clock,      \* wall clock, in ticks
    event,      \* the event of the current invocation
    response,   \* the local variable response
    timestamp,  \* the local variable timestamp
    full_path,  \* the local variable full_path
    gets,       \* outcomes of the HTTP GETs issued by the current invocation, in order
    writes,     \* object-store writes done by the current invocation (paths)
    puts,       \* record-store puts done by the current invocation (items)
    emails,     \* emails delivered to the relay by the current invocation
    smtp,       \* the relay as met by the full-argument send_email call:
                \* "not_called", "ok", or "failed" (some stage raised)
    sendRaised, \* whether that send_email call raised
    caught,     \* whether the blanket except handler was entered (line 126 logs it)
    bucket,     \* the object store: set of [key, val]
    table,      \* the record store: set of [key, val]
    accepted    \* log of the SUCCESS workflows that ran to "Table updated"

vars == <<pc, inv, clock, event, response, timestamp, full_path, gets, writes,
          puts, emails, smtp, sendRaised, caught, bucket, table, accepted>>

locals == <<event, response, timestamp, full_path, gets, writes, puts, emails,
            smtp, sendRaised, caught>>

Finished == pc \in {"returned", "raised"}

\* ------------------------------------------------------- pure helpers

\* datetime.datetime.now().strftime("%Y%m%d%H%M%S"): whole seconds
Strftime(now) == now \div TicksPerSecond

\* a file name without the timestamp
FullPath_NoTimestamp(user_email, assignment_id, attempt, ts) ==
    <<user_email, assignment_id, "submission", attempt, "zip">>

\* f"{user_email}/{assignment_id}/" + f"submission_{attempt}_{timestamp}.zip"
FullPath(user_email, assignment_id, attempt, ts) ==
    <<user_email, assignment_id, "submission", attempt, ts, "zip">>

\* f"{user_email}#{assignment_id}#{timestamp}"
PartitionKey(user_email, assignment_id, ts) == <<user_email, assignment_id, ts>>

\* an Item that records the directory instead of the full path
Item_DirectoryPath(user_email, assignment_id, submission_url, path, ts) ==
    [Id |-> PartitionKey(user_email, assignment_id, ts),
     AssignmentId |-> assignment_id,
     SubmissionUrl |-> submission_url,
     FilePath |-> <<user_email, assignment_id>>,
     Timestamp |-> ts]

\* the Item of table.put_item
Item(user_email, assignment_id, submission_url, path, ts) ==
    [Id |-> PartitionKey(user_email, assignment_id, ts),
     AssignmentId |-> assignment_id,
     SubmissionUrl |-> submission_url,
     FilePath |-> path,
     Timestamp |-> ts]

\* unconditional overwrite under a key (blob.upload_from_string, table.put_item)
Upsert(store, k, v) == {e \in store : e.key # k} \cup {[key |-> k, val |-> v]}
Keys(store) == {e.key : e \in store}

\* response.status_code != 200 or not file_content
FetchRejected(r) == r.status_code # HttpOk \/ r.content = ""

\* a parse that lets a non-JSON message through
ParseRaises_AbsentOnly(e) == e.sns = "absent"

\* json.loads(message_str) raises / event['Records'][0]['Sns']['Message'] raises
ParseRaises(e) == e.sns \in {"malformed", "absent"}

\* the branch of the if/elif chain on status
Workflow(status) ==
    IF status = "SUCCESS" THEN "success"
    ELSE IF status \in FailureStatuses THEN "notify"
    ELSE "error"

Subject(status) ==
    CASE status = "SUCCESS" -> "Submission Received Successfully"
      [] status = "NO_CONTENT" -> "Submission Failed - Empty File"
      [] status = "INVALID_URL" -> "Submission Failed - Invalid URL"
      [] status = "MAX_ATTEMPTS" -> "Submission Failed - max attempts reached"
      [] status = "DEADLINE_PASSED" -> "Submission Failed - Deadline Passed"
      [] OTHER -> "Submission Error - Canvas"

Body(status) ==
    CASE status = "SUCCESS" -> "We are happy to notify you that your assignment submission has been received and accepted."
      [] status = "NO_CONTENT" -> "Your Submission could not be accepted as the file does not have any content"
      [] status = "INVALID_URL" -> "Your Submission could not be accepted as the URL submitted does not contain a valid zip file"
      [] status = "MAX_ATTEMPTS" -> "Your Submission could not be accepted as you have reached maximum number of attempts"
      [] status = "DEADLINE_PASSED" -> "Your Submission could not be accepted as the has passed"
      [] OTHER -> "There was an error with your submission. Please ensure the URL is correct and the content is not empty."

GenericSubject == Subject("UNKNOWN")
GenericBody == Body("UNKNOWN")

\* the message handed to the relay
Mail(e, subject, body, path) ==
    [to |-> e.userEmail, subject |-> subject, body |-> body, path |-> path,
     assignmentId |-> e.assignmentId, attempt |-> e.attempt]

\* send_email's SMTP part: SMTP(...) outside the try, login and sendmail inside
\* a try that catches smtplib.SMTPException only, quit after it.
\* sent: sendmail completed; raised: an exception left send_email.
send_email(t) ==
    IF t.connect # "ok" THEN [sent |-> FALSE, raised |-> TRUE]
    ELSE IF t.login = "OSError" THEN [sent |-> FALSE, raised |-> TRUE]
    ELSE IF t.login = "SMTPException" THEN [sent |-> FALSE, raised |-> t.quit # "ok"]
    ELSE IF t.sendmail = "OSError" THEN [sent |-> FALSE, raised |-> TRUE]
    ELSE IF t.sendmail = "SMTPException" THEN [sent |-> FALSE, raised |-> t.quit # "ok"]
    ELSE [sent |-> TRUE, raised |-> t.quit # "ok"]

\* a Python call binds only when every parameter without a default gets an argument
CallBinds(nargs, nparams) == nargs = nparams

\* ---------------------------------------------------------------- Init
Init ==
    /\ pc = "idle"
    /\ inv = 0
    /\ clock = 0
    /\ event = CHOOSE e \in BrokenEvents : e.sns = "absent"
    /\ response = NoResponse
    /\ timestamp = NoTs
    /\ full_path = NoPath
    /\ gets = <<>>
    /\ writes = <<>>
    /\ puts = <<>>
    /\ emails = <<>>
    /\ smtp = "not_called"
    /\ sendRaised = FALSE
    /\ caught = FALSE
    /\ bucket = {}
    /\ table = {}
    /\ accepted = <<>>

\* --------------------------------------------------------------- actions

\* the wall clock advances on its own
Tick ==
    /\ clock < MaxClock
    /\ clock' = clock + 1
    /\ UNCHANGED <<pc, inv, locals, bucket, table, accepted>>

\* the transport invokes lambda_handler(event, context)
Invoke ==
    /\ pc \in {"idle", "returned", "raised"}
    /\ inv < MaxInvocations
    /\ \E e \in Events : event' = e
    /\ inv' = inv + 1
    /\ pc' = "parse"
    /\ response' = NoResponse
    /\ timestamp' = NoTs
    /\ full_path' = NoPath
    /\ gets' = <<>>
    /\ writes' = <<>>
    /\ puts' = <<>>
    /\ emails' = <<>>
    /\ smtp' = "not_called"
    /\ sendRaised' = FALSE
    /\ caught' = FALSE
    /\ UNCHANGED <<clock, bucket, table, accepted>>

\* lines 19-33: read the message, json.loads, extract the fields (outside any try)
Parse ==
    /\ pc = "parse"
    /\ pc' = IF ParseRaises(event) THEN "raised" ELSE "prefetch"
    /\ UNCHANGED <<inv, clock, locals, bucket, table, accepted>>

\* line 39: response = requests.get(submission_url), before the dispatch, outside any try
PreFetch ==
    /\ pc = "prefetch"
    /\ \/ \E r \in Responses :
            /\ response' = r
            /\ gets' = Append(gets, r)
            /\ pc' = "creds"
       \/ /\ response' = response
          /\ gets' = Append(gets, Raised)
          /\ pc' = "raised"
    /\ UNCHANGED <<inv, clock, event, timestamp, full_path, writes, puts, emails,
                   smtp, sendRaised, caught, bucket, table, accepted>>

\* lines 41-57: decode GOOGLE_CREDENTIALS and build the storage client (outside the try)
Credentials ==
    /\ pc = "creds"
    /\ \E c \in {"ok", "malformed"} : pc' = IF c = "ok" THEN "dispatch" ELSE "raised"
    /\ UNCHANGED <<inv, clock, locals, bucket, table, accepted>>

\* lines 66-67, 98, 104, 110, 116, 122-123: the if/elif chain on status
Dispatch ==
    /\ pc = "dispatch"
    /\ pc' = CASE Workflow(event.status) = "success" -> "fetch"
               [] Workflow(event.status) = "notify" -> "email"
               [] OTHER -> "except"
    /\ UNCHANGED <<inv, clock, locals, bucket, table, accepted>>

\* lines 68-71: the content fetch of the SUCCESS workflow
Fetch ==
    /\ pc = "fetch"
    /\ \/ \E r \in Responses :
            /\ response' = r
            /\ gets' = Append(gets, r)
            /\ pc' = IF FetchRejected(r) THEN "except" ELSE "upload"
       \/ /\ response' = response
          /\ gets' = Append(gets, Raised)
          /\ pc' = "except"
    /\ UNCHANGED <<inv, clock, event, timestamp, full_path, writes, puts, emails,
                   smtp, sendRaised, caught, bucket, table, accepted>>

\* lines 73-78: derive timestamp and path, blob.upload_from_string
Upload ==
    /\ pc = "upload"
    /\ timestamp' = Strftime(clock)
    /\ full_path' = FullPath(event.userEmail, event.assignmentId, event.attempt, timestamp')
    /\ \/ /\ bucket' = Upsert(bucket, full_path', response.content)
          /\ writes' = Append(writes, full_path')
          /\ pc' = "email"
       \/ /\ UNCHANGED <<bucket, writes>>
          /\ pc' = "except"
    /\ UNCHANGED <<inv, clock, event, response, gets, puts, emails, smtp,
                   sendRaised, caught, table, accepted>>

\* lines 90-91, 101-103, 107-109, 113-115, 119-121 with 131-166:
\* the send_email call of the dispatched workflow, with the full argument list
SendEmail ==
    /\ pc = "email"
    /\ \E t \in Transports :
         LET r == send_email(t) IN
            /\ smtp' = IF t = SmtpOk THEN "ok" ELSE "failed"
            /\ sendRaised' = r.raised
            /\ emails' = IF r.sent
                         THEN Append(emails, Mail(event, Subject(event.status),
                                                  Body(event.status), full_path))
                         ELSE emails
            /\ pc' = IF r.raised THEN "except"
                     ELSE IF Workflow(event.status) = "success" THEN "dynamo"
                     ELSE "returned"
    /\ UNCHANGED <<inv, clock, event, response, timestamp, full_path, gets, writes,
                   puts, caught, bucket, table, accepted>>

\* lines 95-97 with 169-182: update_dynamodb, then "Table updated"
update_dynamodb ==
    /\ pc = "dynamo"
    /\ LET item == Item(event.userEmail, event.assignmentId, event.submissionUrl,
                        full_path, timestamp) IN
       \/ /\ table' = Upsert(table, item.Id, item)
          /\ puts' = Append(puts, item)
          /\ accepted' = Append(accepted, [inv |-> inv, event |-> event, item |-> item])
          /\ pc' = "returned"
       \/ /\ UNCHANGED <<table, puts, accepted>>
          /\ pc' = "except"
    /\ UNCHANGED <<inv, clock, event, response, timestamp, full_path, gets, writes,
                   emails, smtp, sendRaised, caught, bucket>>

\* lines 125-128: the blanket handler calls send_email with ExceptCallArgs
\* positional arguments; when the call does not bind, the TypeError leaves the handler
Except ==
    /\ pc = "except"
    /\ caught' = TRUE
    /\ IF CallBinds(ExceptCallArgs, SendEmailParams)
       THEN \E t \in Transports :
              LET r == send_email(t) IN
                 /\ emails' = IF r.sent
                              THEN Append(emails, Mail(event, GenericSubject, GenericBody, NoPath))
                              ELSE emails
                 /\ pc' = IF r.raised THEN "raised" ELSE "returned"
       ELSE /\ emails' = emails
            /\ pc' = "raised"
    /\ UNCHANGED <<inv, clock, event, response, timestamp, full_path, gets, writes,
                   puts, smtp, sendRaised, bucket, table, accepted>>

Next ==
    \/ Tick
    \/ Invoke
    \/ Parse
    \/ PreFetch
    \/ Credentials
    \/ Dispatch
    \/ Fetch
    \/ Upload
    \/ SendEmail
    \/ update_dynamodb
    \/ Except

Spec == Init /\ [][Next]_vars

\* ================================================================ claims

IsJson == event.sns = "json"
\* the content fetch is the second GET of a SUCCESS invocation
FetchedContentOk ==
    /\ IsJson /\ event.status = "SUCCESS" /\ Len(gets) = 2
    /\ gets[2].status_code = 200 /\ gets[2].content # ""
FetchedContentBad ==
    /\ IsJson /\ event.status = "SUCCESS" /\ Len(gets) = 2
    /\ gets[2] # Raised
    /\ (gets[2].status_code # 200 \/ gets[2].content = "")
AcceptedEffects ==
    /\ Len(writes) = 1
    /\ Len(puts) = 1
    /\ writes[1] = <<event.userEmail, event.assignmentId, "submission", event.attempt,
                     puts[1].Timestamp, "zip">>
    /\ puts[1].FilePath = writes[1]
    /\ Len(emails) = 1
    /\ emails[1].subject = "Submission Received Successfully"
NoStoreEffects == writes = <<>> /\ puts = <<>>
OneGenericEmail ==
    /\ Len(emails) = 1
    /\ emails[1].subject = "Submission Error - Canvas"

C2_FailureStatusOneEmail ==
    (Finished /\ IsJson /\ event.status \in FailureStatuses /\ smtp # "failed") =>
        /\ NoStoreEffects
        /\ Len(emails) = 1
        /\ emails[1].subject = Subject(event.status)
        /\ emails[1].body = Body(event.status)

\* C3: every finished invocation with an unrecognized status that reached the
\* dispatch made no store write and no record put, sent exactly one generic
\* error email, and returned normally.
C3_UnknownStatusHandled ==
    (Finished /\ IsJson /\ event.status \notin KnownStatuses /\ caught) =>
        /\ NoStoreEffects
        /\ OneGenericEmail
        /\ pc = "returned"

\* C4: every finished SUCCESS invocation whose content fetch returned a non-200
\* status or an empty body sent the generic error email and made no store
\* write and no record put.
C4_BadContentGenericEmail ==
    (Finished /\ FetchedContentBad) => (OneGenericEmail /\ NoStoreEffects)

\* C5: every finished invocation in which a step of the dispatched workflow
\* raised (the blanket handler was entered) returned normally, never raising
\* to the transport, after handing a generic error email to send_email.
C5_ExceptionsSwallowed ==
    (Finished /\ caught) =>
        /\ pc = "returned"
        /\ \E i \in DOMAIN emails : emails[i].subject = "Submission Error - Canvas"

\* C6: a send_email call made with the full argument list whose transport
\* failed at some stage (connect, login, sendmail, quit) did not raise.
C6_TransportFailureCaught == (smtp = "failed") => ~sendRaised

\* C7: when the handler finishes, the object-store write and the record put
\* have both occurred or both not occurred (here already among the
\* invocations whose send_email call did not raise).
C7_StoredIffRecorded ==
    (Finished /\ ~sendRaised) => ((writes = <<>>) <=> (puts = <<>>))

\* C8: an invocation whose SNS message is not parseable as JSON attempts no
\* email at any point and can finish only by raising.
C8_MalformedFailsBeforeEmail ==
    (pc # "idle" /\ event.sns = "malformed") =>
        /\ emails = <<>>
        /\ smtp = "not_called"
        /\ pc \in {"parse", "raised"}

C8_Witness == pc = "raised" /\ event.sns = "malformed" /\ emails = <<>>

\* C9: when an invocation that handled a SUCCESS event to the end is followed
\* at once by an invocation that handles the same event to the end in a later
\* whole second, then as the second returns the stores hold two objects under
\* different paths and two records under different ids: the first object and
\* the first record are still there, not overwritten.
SameEventLaterSecond(i, j) ==
    /\ i \in DOMAIN accepted /\ j \in DOMAIN accepted
    /\ j = i + 1
    /\ accepted[j].inv = accepted[i].inv + 1
    /\ accepted[i].event = accepted[j].event
    /\ accepted[i].item.Timestamp # accepted[j].item.Timestamp

C9_RedeliveryNotIdempotent ==
    \A j \in DOMAIN accepted :
        (pc = "returned" /\ accepted[j].inv = inv /\ SameEventLaterSecond(j - 1, j)) =>
            LET a == accepted[j - 1].item
                b == accepted[j].item IN
            /\ a.FilePath # b.FilePath
            /\ a.Id # b.Id
            /\ {a.FilePath, b.FilePath} \subseteq Keys(bucket)
            /\ [key |-> a.Id, val |-> a] \in table
            /\ [key |-> b.Id, val |-> b] \in table

C9_Witness ==
    /\ pc = "returned"
    /\ Len(accepted) = 2
    /\ accepted[2].inv = inv
    /\ SameEventLaterSecond(1, 2)
    /\ Cardinality(bucket) = 2
    /\ Cardinality(table) = 2

\* C10: an invocation with status NO_CONTENT, INVALID_URL, MAX_ATTEMPTS or
\* DEADLINE_PASSED issues no HTTP fetch of submissionUrl.
C10_NoFetchOutsideSuccess ==
    (pc # "idle" /\ IsJson /\ event.status \in FailureStatuses) => gets = <<>>

====
